---- MODULE Spec2Model ----
(***************************************************************************)
(* A model of notebooks/s3_client.py: the S3ClientHandler facade, the      *)
(* bucket it talks to and the temporary files it creates.                  *)
(*                                                                         *)
(* Strings are sequences of one-character strings, so that the f-strings   *)
(* that build object keys, and the service's prefix filter and key order,  *)
(* are computed and not assumed.  File contents are sequences of tokens.   *)
(***************************************************************************)
EXTENDS Integers, Sequences, FiniteSets, TLC

VARIABLES
    phase,        \* "none": no facade yet; "ready": __init__ returned; "failed": __init__ raised
    bucket_name,  \* self.bucket_name; NoName while unset (None)
    store,        \* the bucket: a function from the keys present to the stored file
    everStored,   \* history: the keys some writer has ever stored an object under
    lastUpload,   \* history: key -> the table whose upload by the facade was the latest write to the key
    pc,           \* the position of the caller inside the facade: which with-block is open, and its file
    tempFiles,    \* the temporary files that exist on disk
    last          \* what the operation completed last was given, did and returned; NoLast once
                  \* another writer has changed the bucket since

vars == <<phase, bucket_name, store, everStored, lastUpload, pc, tempFiles, last>>

----------------------------------------------------------------------------
(* Bounds of the model. *)

\* the longest geospatial table (number of features) a caller uploads
MaxFeatures == 1

\* the number of keys the service puts in one listing page; S3 puts 1000
MaxKeysPerPage == 2

----------------------------------------------------------------------------
(* Strings. *)

\* the character codes of the characters the keys are made of (UTF-8)
Code == [c \in {".", "/", "a", "e", "g", "i", "j", "l", "m", "n", "o", "s", "t", "x"} |->
           CASE c = "." -> 46 [] c = "/" -> 47 [] c = "a" -> 97 [] c = "e" -> 101
             [] c = "g" -> 103 [] c = "i" -> 105 [] c = "j" -> 106 [] c = "l" -> 108
             [] c = "m" -> 109 [] c = "n" -> 110 [] c = "o" -> 111 [] c = "s" -> 115
             [] c = "t" -> 116 [] c = "x" -> 120]

\* a[:n] == b, as str.startswith
StartsWith(s, prefix) ==
    /\ Len(prefix) <= Len(s)
    /\ SubSeq(s, 1, Len(prefix)) = prefix

\* the order S3 lists keys in: bytewise, a proper prefix first
RECURSIVE KeyLess(_, _)
KeyLess(a, b) ==
    IF a = <<>> THEN b # <<>>
    ELSE IF b = <<>> THEN FALSE
    ELSE IF a[1] = b[1] THEN KeyLess(Tail(a), Tail(b))
    ELSE Code[a[1]] < Code[b[1]]

RECURSIVE SortKeys(_)
SortKeys(S) ==
    IF S = {} THEN <<>>
    ELSE LET m == CHOOSE k \in S : \A o \in S \ {k} : KeyLess(k, o)
         IN  <<m>> \o SortKeys(S \ {m})

\* the values of None, of the missing environment variable and of the empty str
NoName == "None"
EmptyName == ""

\* the folder the geospatial and spreadsheet operations default to
amenities == <<"a", "m", "e", "n", "i", "t", "i", "e", "s">>

\* the folder list_files, list_files_with_sizes and check_file_exists default to
emptyFolder == <<>>

----------------------------------------------------------------------------
(* The inputs callers are drawn from. *)

BucketArgs == {NoName, EmptyName, "bucket"}
EnvValues == {NoName, EmptyName, "bucket"}

Folders == {emptyFolder, amenities}
FileNames == {<<"x">>}

Geometries == {"POINT_1", "POINT_2"}

RECURSIVE SeqsUpTo(_, _)
SeqsUpTo(S, n) ==
    IF n = 0 THEN {<<>>}
    ELSE LET shorter == SeqsUpTo(S, n - 1)
         IN  shorter \cup {Append(t, g) : t \in {u \in shorter : Len(u) = n - 1}, g \in S}

\* a geospatial table is its column of geometries, one per feature
GeoTables == SeqsUpTo(Geometries, MaxFeatures)

----------------------------------------------------------------------------
(* Files: the serialization libraries. *)

\* gdf.to_file(path, driver="GeoJSON"): a feature collection, one feature per row
RECURSIVE ToFile(_)
ToFile(gdf) ==
    IF gdf = <<>> THEN <<"FeatureCollection">>
    ELSE ToFile(SubSeq(gdf, 1, Len(gdf) - 1)) \o <<"Feature", gdf[Len(gdf)]>>

\* whether gpd.read_file can parse the file as GeoJSON
IsGeoJSON(file) ==
    /\ Len(file) >= 1
    /\ file[1] = "FeatureCollection"
    /\ Len(file) % 2 = 1
    /\ \A i \in 1..((Len(file) - 1) \div 2) : file[2 * i] = "Feature"

\* gpd.read_file(path): the geometry of each feature, in file order
ReadFile(file) == [i \in 1..((Len(file) - 1) \div 2) |-> file[2 * i + 1]]

\* the spreadsheet some other writer stores: a workbook of one row
Workbook == <<"PK", "row_1">>

\* whether pd.read_excel can parse the file
IsExcel(file) == Len(file) >= 1 /\ file[1] = "PK"

\* pd.read_excel(path): the rows of the workbook
ReadExcel(file) == Tail(file)

\* the size the service records for a stored file
ByteSize(file) == Len(file)

----------------------------------------------------------------------------
(* Object keys: the f-strings of the operations. *)

\* upload_geodataframe: f"{folder}/{file_name}.geojson"
UploadKey(folder, file_name) ==
    folder \o <<"/">> \o file_name \o <<".", "g", "e", "o", "j", "s", "o", "n">>

\* get_geodataframe: f"{folder}/{file_name}.geojson"
KeyWithoutFolder(folder, file_name) ==
    file_name \o <<".", "g", "e", "o", "j", "s", "o", "n">>
GetGeodataframeKey(folder, file_name) ==
    folder \o <<"/">> \o file_name \o <<".", "g", "e", "o", "j", "s", "o", "n">>

\* get_excel_file: f"{folder}/{file_name}.xlsx"
GetExcelKey(folder, file_name) ==
    folder \o <<"/">> \o file_name \o <<".", "x", "l", "s", "x">>

\* check_geodataframe_exists: f"{folder}/{file_name}.geojson"
KeyWithoutExtension(folder, file_name) ==
    folder \o <<"/">> \o file_name
CheckGeodataframeKey(folder, file_name) ==
    folder \o <<"/">> \o file_name \o <<".", "g", "e", "o", "j", "s", "o", "n">>

\* check_file_exists: f"{folder}/{file_name}"
CheckFileKey(folder, file_name) ==
    folder \o <<"/">> \o file_name

\* the keys writers other than the facade store spreadsheets under
OtherKeys ==
    { amenities \o <<"/", "x", ".", "x", "l", "s", "x">>, <<"x">> }

\* the keys other writers overwrite: their own and the facade's
WritableKeys ==
    OtherKeys \cup {UploadKey(f, n) : f \in Folders, n \in FileNames}

----------------------------------------------------------------------------
(* The storage service and the SDK. *)

\* what the service can answer to a request of an operation ("ok": it serves
\* the request; a missing key is then answered 404), and to the listing
\* request of the constructor, the only place that tells the error codes apart
Faults == {"ok", "AccessDenied"}
ConstructFaults == {"ok", "AccessDenied", "NoSuchBucket", "InternalError"}

\* the SDK validates the Bucket parameter before it sends a request: None and
\* the empty string are rejected with a ParamValidationError
ValidBucket(b) == b # NoName /\ b # EmptyName

\* the keys under a prefix, in the order the service lists them
Matching(bucket, prefix) ==
    SortKeys({k \in DOMAIN bucket : StartsWith(k, prefix)})

\* what the service reports of one object in a listing
Entry(bucket, k) == [Key |-> k, Size |-> ByteSize(bucket[k])]

\* list_objects_v2(Prefix=prefix): the "Contents" of the first page; a page
\* holds at most MaxKeysPerPage keys, and <<>> stands for a response without
\* "Contents"
ListObjectsV2(bucket, prefix) ==
    LET all == Matching(bucket, prefix)
        n == IF Len(all) < MaxKeysPerPage THEN Len(all) ELSE MaxKeysPerPage
    IN  [i \in 1..n |-> Entry(bucket, all[i])]

\* paginator.paginate(Prefix=prefix): the "Contents" of every page, following
\* the continuation tokens; with no match one page without "Contents"
RECURSIVE Chunks(_)
Chunks(entries) ==
    IF Len(entries) <= MaxKeysPerPage THEN <<entries>>
    ELSE <<SubSeq(entries, 1, MaxKeysPerPage)>>
         \o Chunks(SubSeq(entries, MaxKeysPerPage + 1, Len(entries)))

Paginate(bucket, prefix) ==
    LET all == Matching(bucket, prefix)
    IN  Chunks([i \in 1..Len(all) |-> Entry(bucket, all[i])])

\* put: the bucket with the file stored under the key
PutObject(bucket, k, file) == (k :> file) @@ bucket

\* delete: the bucket without the key
DeleteObject(bucket, k) == [j \in DOMAIN bucket \ {k} |-> bucket[j]]

\* head_object and download_file: the code of the ClientError the SDK raises,
\* "ok" when it returns.  A fault of the service reaches the caller as a
\* ClientError carrying its code; a missing key is the ClientError with code 404.
Answer(bucket, k, fault) ==
    IF fault # "ok" THEN fault
    ELSE IF k \notin DOMAIN bucket THEN "404"
    ELSE "ok"

----------------------------------------------------------------------------
(* The state. *)

\* the number of keys the constructor's listing request asks for (MaxKeys=1)
CheckMaxKeys == 1

Idle == [op |-> "idle", temp |-> 0]

\* the record of a completed operation: its arguments, the key it addressed,
\* the fault of the service during it ("ok": none), the service's answer, the
\* exception the operation caught, the exception that left it ("none" when it
\* returned), what it returned, the number of requests it sent, and whether
\* it ran in the state a successful upload of the same name and folder left
NoLast ==
    [op |-> "none", bucket_arg |-> NoName, env |-> NoName, folder |-> <<>>,
     file_name |-> <<>>, gdf |-> <<>>, key |-> <<>>, fault |-> "ok", answer |-> "ok",
     caught |-> "none", exc |-> "none", returned |-> "nothing", keys |-> <<>>,
     rows |-> <<>>, table |-> <<>>, found |-> FALSE, requests |-> 0,
     max_keys |-> 0, afterUpload |-> FALSE]

Init ==
    /\ phase = "none"
    /\ bucket_name = NoName
    /\ store = [k \in {} |-> <<>>]
    /\ everStored = {}
    /\ lastUpload = [k \in {} |-> <<>>]
    /\ pc = Idle
    /\ tempFiles = {}
    /\ last = NoLast

----------------------------------------------------------------------------
(* Construction. *)

\* __init__, lines 19-25: the bucket name the constructor resolves, and
\* whether it raises the ValueError of line 23
ResolveTestingNoneOnly(bucket_arg, env) ==
    IF bucket_arg = NoName
    THEN [name |-> env, raises |-> (env = NoName)]
    ELSE [name |-> bucket_arg, raises |-> FALSE]
ResolveBucket(bucket_arg, env) ==
    IF bucket_arg = NoName
    THEN [name |-> env, raises |-> (env = NoName \/ env = EmptyName)]
    ELSE [name |-> bucket_arg, raises |-> FALSE]

\* _check_permissions: what leaves it ("none" when the listing succeeded)
CheckSwallowingClientError(name, fault) ==
    IF ~ValidBucket(name) THEN "ParamValidationError" ELSE "none"
CheckSwallowingEverything(name, fault) == "none"
CheckPermissions(name, fault) ==
    IF ~ValidBucket(name) THEN "ParamValidationError"
    ELSE IF fault = "ok" THEN "none"
    ELSE IF fault = "AccessDenied" THEN "PermissionError"
    ELSE IF fault = "NoSuchBucket" THEN "ValueError"
    ELSE "ClientError"

\* S3ClientHandler(bucket_name): the whole constructor
Construct(bucket_arg, env, fault) ==
    /\ phase # "ready"
    /\ pc = Idle
    /\ LET r == ResolveBucket(bucket_arg, env)
           exc == IF r.raises THEN "ValueError" ELSE CheckPermissions(r.name, fault)
           sent == IF r.raises \/ ~ValidBucket(r.name) THEN 0 ELSE 1
       IN  /\ bucket_name' = r.name
           /\ phase' = IF exc = "none" THEN "ready" ELSE "failed"
           /\ last' = [NoLast EXCEPT !.op = "construct", !.bucket_arg = bucket_arg,
                          !.env = env, !.fault = IF sent = 1 THEN fault ELSE "ok",
                          !.answer = IF sent = 1 THEN fault ELSE "ok",
                          !.exc = exc,
                          !.returned = IF exc = "none" THEN "facade" ELSE "nothing",
                          !.requests = sent,
                          !.max_keys = IF sent = 1 THEN CheckMaxKeys ELSE 0]
    /\ UNCHANGED <<store, everStored, lastUpload, pc, tempFiles>>

----------------------------------------------------------------------------
(* Listing. *)

\* list_files(folder)
ListFiles(folder, fault) ==
    /\ phase = "ready"
    /\ pc = Idle
    /\ LET contents == ListObjectsV2(store, folder)
           keys == IF fault # "ok" THEN <<>>
                   ELSE IF contents # <<>> THEN [i \in 1..Len(contents) |-> contents[i].Key]
                   ELSE <<>>
       IN  last' = [NoLast EXCEPT !.op = "list_files", !.folder = folder,
                       !.fault = fault, !.answer = fault,
                       !.caught = IF fault # "ok" THEN "ClientError" ELSE "none",
                       !.returned = "list", !.keys = keys, !.requests = 1]
    /\ UNCHANGED <<phase, bucket_name, store, everStored, lastUpload, pc, tempFiles>>

\* the for loops of list_files_with_sizes: the rows of the pages, appended to data
RECURSIVE LastPageOnly(_, _)
LastPageOnly(pages, data) ==
    IF pages = <<>> THEN data
    ELSE LastPageOnly(Tail(pages),
             [i \in 1..Len(Head(pages)) |->
                 [file_name |-> Head(pages)[i].Key, size_bytes |-> Head(pages)[i].Size]])

RECURSIVE Collect(_, _)
Collect(pages, data) ==
    IF pages = <<>> THEN data
    ELSE Collect(Tail(pages),
             data \o [i \in 1..Len(Head(pages)) |->
                 [file_name |-> Head(pages)[i].Key, size_bytes |-> Head(pages)[i].Size]])

\* list_files_with_sizes(folder); the service fails, if it does, at the
\* request of page failAt
ListFilesWithSizes(folder, fault, failAt) ==
    /\ phase = "ready"
    /\ pc = Idle
    /\ LET pages == Paginate(store, folder)
       IN  /\ failAt \in 1..Len(pages)
           /\ fault = "ok" => failAt = Len(pages)
           /\ last' = [NoLast EXCEPT !.op = "list_files_with_sizes", !.folder = folder,
                          !.fault = fault, !.answer = fault,
                          !.caught = IF fault # "ok" THEN "ClientError" ELSE "none",
                          !.returned = "DataFrame",
                          !.rows = IF fault # "ok" THEN <<>> ELSE Collect(pages, <<>>),
                          !.requests = failAt]
    /\ UNCHANGED <<phase, bucket_name, store, everStored, lastUpload, pc, tempFiles>>

----------------------------------------------------------------------------
(* Temporary files. *)

\* NamedTemporaryFile(...): the name of the file it creates, one no file has
NamedTemporaryFile(files) == Cardinality(files) + 1

\* leaving the with-block of NamedTemporaryFile(delete=True): the files left
KeepOnExit(files, name) == files
ExitTemporaryFile(files, name) == files \ {name}

\* entering the with-block of upload_geodataframe, get_geodataframe or
\* get_excel_file: the temporary file is created before the try
Enter(op) ==
    /\ phase = "ready"
    /\ pc = Idle
    /\ pc' = [op |-> op, temp |-> NamedTemporaryFile(tempFiles)]
    /\ tempFiles' = tempFiles \cup {NamedTemporaryFile(tempFiles)}
    /\ UNCHANGED <<phase, bucket_name, store, everStored, lastUpload, last>>

EnterUpload == Enter("upload_geodataframe")
EnterGetGeodataframe == Enter("get_geodataframe")
EnterGetExcel == Enter("get_excel_file")

----------------------------------------------------------------------------
(* Upload and download. *)

\* upload_file: what the SDK raises; it wraps every service error of an
\* upload in S3UploadFailedError, which is not a ClientError
UploadError(fault) == IF fault = "ok" THEN "none" ELSE "S3UploadFailedError"

\* upload_geodataframe(gdf, file_name, folder), from the try to the return
UploadGeodataframe(gdf, file_name, folder, fault) ==
    /\ pc.op = "upload_geodataframe"
    /\ LET file == ToFile(gdf)
           s3_key == UploadKey(folder, file_name)
           exc == UploadError(fault)
       IN  /\ store' = IF exc = "none" THEN PutObject(store, s3_key, file) ELSE store
           /\ everStored' = IF exc = "none" THEN everStored \cup {s3_key} ELSE everStored
           /\ lastUpload' = IF exc = "none" THEN (s3_key :> gdf) @@ lastUpload ELSE lastUpload
           /\ last' = [NoLast EXCEPT !.op = "upload_geodataframe", !.folder = folder,
                          !.file_name = file_name, !.gdf = gdf, !.key = s3_key,
                          !.fault = fault, !.answer = fault, !.exc = exc,
                          !.returned = IF exc = "none" THEN "None" ELSE "nothing",
                          !.requests = 1]
    /\ tempFiles' = ExitTemporaryFile(tempFiles, pc.temp)
    /\ pc' = Idle
    /\ UNCHANGED <<phase, bucket_name>>

\* get_geodataframe(file_name, folder), from the try to the return
GetGeodataframe(file_name, folder, fault) ==
    /\ pc.op = "get_geodataframe"
    /\ LET s3_key == GetGeodataframeKey(folder, file_name)
           err == Answer(store, s3_key, fault)
           parsed == err = "ok" /\ IsGeoJSON(store[s3_key])
       IN  last' = [NoLast EXCEPT !.op = "get_geodataframe", !.folder = folder,
                       !.file_name = file_name, !.key = s3_key, !.fault = fault, !.answer = err,
                       !.caught = IF err # "ok" THEN "ClientError" ELSE "none",
                       !.exc = IF err = "ok" /\ ~parsed THEN "DataSourceError" ELSE "none",
                       !.returned = IF err # "ok" THEN "None"
                                    ELSE IF parsed THEN "GeoDataFrame" ELSE "nothing",
                       !.table = IF parsed THEN ReadFile(store[s3_key]) ELSE <<>>,
                       !.requests = 1]
    /\ tempFiles' = ExitTemporaryFile(tempFiles, pc.temp)
    /\ pc' = Idle
    /\ UNCHANGED <<phase, bucket_name, store, everStored, lastUpload>>

\* get_excel_file(file_name, folder), from the try to the return
GetExcelFile(file_name, folder, fault) ==
    /\ pc.op = "get_excel_file"
    /\ LET s3_key == GetExcelKey(folder, file_name)
           err == Answer(store, s3_key, fault)
           parsed == err = "ok" /\ IsExcel(store[s3_key])
       IN  last' = [NoLast EXCEPT !.op = "get_excel_file", !.folder = folder,
                       !.file_name = file_name, !.key = s3_key, !.fault = fault, !.answer = err,
                       !.caught = IF err # "ok" THEN "ClientError" ELSE "none",
                       !.exc = IF err = "ok" /\ ~parsed THEN "ValueError" ELSE "none",
                       !.returned = IF err # "ok" THEN "None"
                                    ELSE IF parsed THEN "DataFrame" ELSE "nothing",
                       !.rows = IF parsed THEN ReadExcel(store[s3_key]) ELSE <<>>,
                       !.requests = 1]
    /\ tempFiles' = ExitTemporaryFile(tempFiles, pc.temp)
    /\ pc' = Idle
    /\ UNCHANGED <<phase, bucket_name, store, everStored, lastUpload>>

----------------------------------------------------------------------------
(* Existence probes. *)

\* check_geodataframe_exists(file_name, folder)
CheckGeodataframeExists(file_name, folder, fault) ==
    /\ phase = "ready"
    /\ pc = Idle
    /\ LET s3_key == CheckGeodataframeKey(folder, file_name)
           err == Answer(store, s3_key, fault)
       IN  last' = [NoLast EXCEPT !.op = "check_geodataframe_exists", !.folder = folder,
                       !.file_name = file_name, !.key = s3_key, !.fault = fault, !.answer = err,
                       !.caught = IF err # "ok" THEN "ClientError" ELSE "none",
                       !.returned = "bool", !.found = (err = "ok"),
                       !.afterUpload = /\ last.op = "upload_geodataframe"
                                       /\ last.exc = "none"
                                       /\ last.folder = folder
                                       /\ last.file_name = file_name,
                       !.requests = 1]
    /\ UNCHANGED <<phase, bucket_name, store, everStored, lastUpload, pc, tempFiles>>

\* check_file_exists(file_name, folder)
CheckFileExists(file_name, folder, fault) ==
    /\ phase = "ready"
    /\ pc = Idle
    /\ LET s3_key == CheckFileKey(folder, file_name)
           err == Answer(store, s3_key, fault)
       IN  last' = [NoLast EXCEPT !.op = "check_file_exists", !.folder = folder,
                       !.file_name = file_name, !.key = s3_key, !.fault = fault, !.answer = err,
                       !.caught = IF err # "ok" THEN "ClientError" ELSE "none",
                       !.returned = "bool", !.found = (err = "ok"),
                       !.requests = 1]
    /\ UNCHANGED <<phase, bucket_name, store, everStored, lastUpload, pc, tempFiles>>

----------------------------------------------------------------------------
(* The other writers of the bucket. *)

\* another client stores a spreadsheet under a key
OtherPut(k) ==
    /\ store' = PutObject(store, k, Workbook)
    /\ everStored' = everStored \cup {k}
    /\ lastUpload' = [j \in DOMAIN lastUpload \ {k} |-> lastUpload[j]]
    /\ last' = NoLast
    /\ UNCHANGED <<phase, bucket_name, pc, tempFiles>>

\* another client deletes an object
OtherDelete(k) ==
    /\ k \in DOMAIN store
    /\ store' = DeleteObject(store, k)
    /\ lastUpload' = [j \in DOMAIN lastUpload \ {k} |-> lastUpload[j]]
    /\ last' = NoLast
    /\ UNCHANGED <<phase, bucket_name, everStored, pc, tempFiles>>

----------------------------------------------------------------------------
(* The specification. *)

Next ==
    \/ \E b \in BucketArgs, e \in EnvValues, f \in ConstructFaults : Construct(b, e, f)
    \/ \E d \in Folders, f \in Faults : ListFiles(d, f)
    \/ \E d \in Folders, f \in Faults, i \in 1..(Cardinality(DOMAIN store) + 1) :
          ListFilesWithSizes(d, f, i)
    \/ EnterUpload
    \/ \E t \in GeoTables, n \in FileNames, d \in Folders, f \in Faults :
          UploadGeodataframe(t, n, d, f)
    \/ EnterGetGeodataframe
    \/ \E n \in FileNames, d \in Folders, f \in Faults : GetGeodataframe(n, d, f)
    \/ EnterGetExcel
    \/ \E n \in FileNames, d \in Folders, f \in Faults : GetExcelFile(n, d, f)
    \/ \E n \in FileNames, d \in Folders, f \in Faults : CheckGeodataframeExists(n, d, f)
    \/ \E n \in FileNames \cup DOMAIN store, d \in Folders, f \in Faults :
          CheckFileExists(n, d, f)
    \/ \E k \in WritableKeys : OtherPut(k)
    \/ \E k \in WritableKeys : OtherDelete(k)

Spec == Init /\ [][Next]_vars

----------------------------------------------------------------------------
(* The claims. *)

Geojson(folder, file_name) ==
    folder \o <<"/">> \o file_name \o <<".", "g", "e", "o", "j", "s", "o", "n">>

Xlsx(folder, file_name) ==
    folder \o <<"/">> \o file_name \o <<".", "x", "l", "s", "x">>

\* C1: when the latest write to the object of (file_name, folder) is a
\* successful upload_geodataframe of a table t, a get_geodataframe of the same
\* name and folder that the service serves returns a table with the features
\* of t: as many, and the same geometry at each position.
C1_RoundTrip ==
    (/\ last.op = "get_geodataframe"
     /\ last.fault = "ok"
     /\ Geojson(last.folder, last.file_name) \in DOMAIN lastUpload)
    => /\ last.returned = "GeoDataFrame"
       /\ Len(last.table) = Len(lastUpload[Geojson(last.folder, last.file_name)])
       /\ \A i \in 1..Len(last.table) :
              last.table[i] = lastUpload[Geojson(last.folder, last.file_name)][i]

C1_Witness ==
    /\ last.op = "get_geodataframe"
    /\ last.fault = "ok"
    /\ last.folder = amenities
    /\ Geojson(last.folder, last.file_name) \in DOMAIN lastUpload
    /\ last.returned = "GeoDataFrame"
    /\ Len(last.table) = MaxFeatures

\* C2: check_geodataframe_exists(n, f) returns false while no object was ever
\* stored under (n, f), and returns true when it runs, served by the service,
\* in the state a successful upload_geodataframe(t, n, f) left.
C2_ExistsAfterUpload ==
    last.op = "check_geodataframe_exists"
    => /\ Geojson(last.folder, last.file_name) \notin everStored => ~last.found
       /\ (last.afterUpload /\ last.fault = "ok") => last.found

C2_Witness ==
    /\ last.op = "check_geodataframe_exists"
    /\ last.afterUpload
    /\ last.fault = "ok"
    /\ last.found

\* C3: when the service reports no error, list_files(prefix) returns exactly
\* the keys of the bucket that start with the prefix, however many there are.
C3_ListKeysReturnsAll ==
    (last.op = "list_files" /\ last.fault = "ok")
    => /\ {last.keys[i] : i \in 1..Len(last.keys)}
              = {k \in DOMAIN store : StartsWith(k, last.folder)}
       /\ Len(last.keys) = Cardinality({k \in DOMAIN store : StartsWith(k, last.folder)})

\* C4: when the service reports no error, list_files_with_sizes(prefix)
\* returns one row for each object under the prefix and no other row, each
\* with the object's byte size, in the order of the pages; with no object under
\* the prefix it returns an empty table.
C4_RowsOfAllPages ==
    (last.op = "list_files_with_sizes" /\ last.fault = "ok")
    => LET under == {k \in DOMAIN store : StartsWith(k, last.folder)}
       IN  /\ Len(last.rows) = Cardinality(under)
           /\ \A k \in under :
                  \E i \in 1..Len(last.rows) :
                      /\ last.rows[i].file_name = k
                      /\ last.rows[i].size_bytes = ByteSize(store[k])
           /\ \A i \in 1..Len(last.rows) : last.rows[i].file_name \in under
           /\ \A i, j \in 1..Len(last.rows) :
                  i < j => KeyLess(last.rows[i].file_name, last.rows[j].file_name)

C4_Witness ==
    /\ last.op = "list_files_with_sizes"
    /\ last.fault = "ok"
    /\ last.requests >= 2
    /\ Len(last.rows) > MaxKeysPerPage

\* C5: no operation of a constructed facade lets a failure of the storage
\* service reach the caller: the failure is caught, the request is not sent
\* again, and the operation returns its sentinel.
C5_ServiceFailuresCaught ==
    (/\ last.op \notin {"none", "construct"}
     /\ last.answer # "ok")
    => /\ last.exc = "none"
       /\ last.caught = "ClientError"
       /\ last.op # "list_files_with_sizes" => last.requests = 1
       /\ last.returned \in {"list", "DataFrame", "None", "bool"}
       /\ last.keys = <<>> /\ last.rows = <<>> /\ last.table = <<>> /\ ~last.found

\* C6: a construction with no bucket_name, while S3_BUCKET_NAME is unset or
\* empty, raises the ValueError of the configuration before any request is
\* sent, and produces no facade.
C6_NoBucketNameIsFatal ==
    (/\ last.op = "construct"
     /\ last.bucket_arg = NoName
     /\ last.env \in {NoName, EmptyName})
    => /\ last.exc = "ValueError"
       /\ last.requests = 0
       /\ phase = "failed"

C6_Witness ==
    /\ last.op = "construct"
    /\ last.bucket_arg = NoName
    /\ last.env = EmptyName
    /\ phase = "failed"

\* C7: a construction sends at most one listing request, of one key; when the
\* service answers it AccessDenied the construction fails with PermissionError,
\* when NoSuchBucket with ValueError, on any other error with that error; a
\* facade is produced only if the request was sent and succeeded.
C7_PermissionCheckIsFatal ==
    last.op = "construct"
    => /\ last.requests <= 1
       /\ last.requests = 1 => last.max_keys = 1
       /\ (last.requests = 1 /\ last.fault = "AccessDenied")
              => (last.exc = "PermissionError" /\ phase = "failed")
       /\ (last.requests = 1 /\ last.fault = "NoSuchBucket")
              => (last.exc = "ValueError" /\ phase = "failed")
       /\ (last.requests = 1 /\ last.fault \notin {"ok", "AccessDenied", "NoSuchBucket"})
              => (last.exc = "ClientError" /\ phase = "failed")
       /\ phase = "ready" <=> (last.requests = 1 /\ last.fault = "ok")

C7_Witness ==
    /\ last.op = "construct"
    /\ last.requests = 1
    /\ last.fault = "AccessDenied"
    /\ last.exc = "PermissionError"
    /\ phase = "failed"

\* C8: whatever the constructor is given, a facade that exists has a bucket
\* name that is a non-empty string, and no step changes the bucket name of a
\* facade that exists.
C8_BucketNameInvariant ==
    /\ [](phase = "ready" => (bucket_name # NoName /\ bucket_name # EmptyName))
    /\ [][phase = "ready" => bucket_name' = bucket_name]_vars

C8_Witness ==
    /\ last.op = "construct"
    /\ last.bucket_arg = EmptyName
    /\ bucket_name = EmptyName
    /\ phase = "failed"

\* C9: upload_geodataframe, get_geodataframe and check_geodataframe_exists
\* address {folder}/{name}.geojson, get_excel_file addresses
\* {folder}/{name}.xlsx, and check_file_exists with the default folder
\* addresses the key it is given: given a key the bucket lists, it probes that
\* key and, served by the service, returns true.
C9_KeyLayout ==
    /\ last.op \in {"upload_geodataframe", "get_geodataframe", "check_geodataframe_exists"}
           => last.key = Geojson(last.folder, last.file_name)
    /\ last.op = "get_excel_file" => last.key = Xlsx(last.folder, last.file_name)
    /\ (/\ last.op = "check_file_exists"
        /\ last.folder = emptyFolder
        /\ last.file_name \in DOMAIN store)
           => /\ last.key = last.file_name
              /\ last.fault = "ok" => last.found

\* C10: outside the calls of the facade no temporary file exists, whichever
\* way the last call ended; inside upload_geodataframe, get_geodataframe and
\* get_excel_file exactly one exists, the one the call created.
C10_TemporaryFilesScoped ==
    /\ pc.op = "idle" => tempFiles = {}
    /\ pc.op # "idle" => tempFiles = {pc.temp}

C10_Witness ==
    /\ pc.op = "idle"
    /\ last.op = "get_geodataframe"
    /\ last.exc = "DataSourceError"
    /\ tempFiles = {}

====
